---- MODULE Spec2Model ----
(***************************************************************************)
(* Model of botwinick_utils/platforms/bg_threads.py: _JobExecutorEngine,   *)
(* a ThreadPoolExecutor plus a lock-guarded set of reserved job ids, with  *)
(* unkeyed, "pre" and "post" style submissions and shutdown.               *)
(*                                                                         *)
(* Two threads call the executor: Main, the owning thread, which submits   *)
(* and is the one that shuts the executor down, and Other, which submits.  *)
(* The worker threads of the pool are interchangeable: the model counts    *)
(* the workers at each position of the _worker loop, and a task that a     *)
(* worker is running carries the worker's position in its own state.       *)
(*                                                                         *)
(* Spec is one engine with its callers; NestedSpec adds submissions made   *)
(* from inside a running fn; LiveSpec is the engine with shutdown never    *)
(* called and fair scheduling; ModuleSpec is the module-level functions    *)
(* (_get_exec, bg_run, bg_run_unique_*, bg_exec_shutdown) over every       *)
(* engine _get_exec constructs, each with its reserved set, lock and tasks.*)
(***************************************************************************)
EXTENDS Integers, Sequences, FiniteSets, TLC

\* ---------------------------------------------------------------- bounds
MaxCalls == 2       \* submissions begun over a behaviour
MaxWorkers == 2     \* max_workers of the pool
MaxShutdowns == 1   \* shutdown calls made over a behaviour
MaxExecShutdowns == 2   \* bg_exec_shutdown calls made over a behaviour

\* ------------------------------------------------------------- constants
Ids == {"x", "y"}   \* caller-supplied job ids
NoId == "-"         \* an unkeyed task has no id
Free == "free"      \* self._lock held by nobody
None == 0           \* the None wake-up item of the work queue
Main == "main"
Other == "other"
Callers == {Main, Other}
\* the pool thread that runs task i, named for use as a holder of self._lock
RunnerNames == <<"runner1", "runner2", "runner3", "runner4">>
Runner(i) == RunnerNames[i]
\* every thread that can call into the executor: the calling threads and,
\* from inside fn, the pool's own threads
Threads == Callers \cup {Runner(i) : i \in 1..MaxCalls}
RunFns == {"plain", "pre", "post"}
Outcomes == {"returned", "raised"}
Unset == "unset"    \* ENGINE_BACKGROUND_THREADS is not in the environment
EnvSettings == {Unset, "2", "many"}   \* unset, an integer's text, other text
DefaultThreads == 4   \* the default handed to os.getenv

VARIABLES
    job_ids,        \* self._job_ids
    lock,           \* the calling thread inside `with self._lock`, or Free
    work_queue,     \* self._executor._work_queue: item numbers and None
    shutdown_flag,  \* self._executor._shutdown
    idle_semaphore, \* self._executor._idle_semaphore
    threads,        \* len(self._executor._threads)
    releasing,      \* workers past work_item.run(), about to release the idle semaphore
    blocked,        \* workers in work_queue.get(block=True)
    exited,         \* workers that have returned from _worker
    items,          \* the work items created so far, each with its state
    pc,             \* position of every calling thread
    call,           \* the submission a calling thread is in the middle of
    last,           \* the submission that ended last, and what it returned or raised
    ncalls,         \* submissions begun
    nshutdowns,     \* shutdown calls begun
    sd,             \* the latest shutdown call: arguments, queue at call, progress
    max_workers,    \* self._executor._max_workers
    env,            \* ENGINE_BACKGROUND_THREADS in the environment at import
    job_executor,   \* the module's _job_executor: None or the number of an engine
    engines         \* the _JobExecutorEngine objects constructed by _get_exec

vars == <<job_ids, lock, work_queue, shutdown_flag, idle_semaphore, threads,
          releasing, blocked, exited, items, pc, call, last, ncalls, nshutdowns, sd,
          max_workers, env, job_executor, engines>>

\* what no operation of an engine changes: its pool size and the module's globals
moduleVars == <<env, job_executor, engines>>
setupVars == <<max_workers, moduleVars>>

workerVars == <<threads, releasing, blocked, exited>>
poolVars == <<work_queue, idle_semaphore, items, workerVars>>
callVars == <<pc, call, last, ncalls>>

\* before: the reserved set as the call found it
NoCall == [op |-> "none", id |-> NoId, before |-> {}]

\* a call that has ended, with what it returned ("True", "False", "None") or
\* the exception it raised ("RuntimeError")
Returned(cl, result) == [op |-> cl.op, id |-> cl.id, result |-> result]
\* drained: some shutdown(cancel_pending=True) has got as far as putting its
\* None wake-up, past the place of the drain loop
NoShutdown ==
    [wait |-> FALSE, cancel |-> FALSE, snap |-> {}, state |-> "never", drained |-> FALSE]

\* ------------------------------------------------------- pure helpers

\* faulty variant: the duplicate check never finds a conflict
ConflictingNever(job_id, ids) == FALSE

\* line 54: `if job_id in self._job_ids`
Conflicting(job_id, ids) == job_id \in ids

\* line 59: `self._job_ids.add(job_id)`
Reserve(job_id, ids) == ids \cup {job_id}

\* lines 65 and 75: `self._job_ids.remove(job_id)` (KeyError when absent)
Release(job_id, ids) == ids \ {job_id}

\* faulty variant: both wrappers remove the id before fn runs
ReleaseAtStartAlways(run_fn) == TRUE

\* faulty variant: no wrapper removes the id before fn runs
ReleaseAtStartNever(run_fn) == FALSE

\* _run_pre_job removes the id before fn runs, _run_post_job after
ReleaseAtStart(run_fn) == run_fn = "pre"

\* faulty variant: no try/finally, the removal runs only when fn returned
CleanupOnSuccessOnly(outcome) == outcome = "returned"

\* _run_post_job: try/finally, so the removal runs whatever fn did
CleanupRuns(outcome) == outcome \in Outcomes

\* ThreadPoolExecutor.submit raises RuntimeError once _shutdown is set
PoolRefuses(flag) == flag

\* faulty variant: fn is called inside the `with self._lock` block
LockAtFnHeld(holder) == holder

\* _run_pre_job: the `with self._lock` block ends before fn is called, so
\* the thread that runs fn has given the lock up
LockAtFn(holder) == Free

\* faulty variant: what a task raises ends the worker thread that ran it
AbsorbedOnReturnOnly(outcome) == outcome = "returned"

\* the wrappers and fn run as the pool's work item, which keeps whatever the
\* task returned or raised in its future (dropped by _submit_job): nothing
\* a task raises reaches the worker's loop
Absorbed(outcome) == outcome \in Outcomes \cup {"KeyError"}

\* faulty variant: submit_job reports a falsy value
SubmitJobResultFalsy == "False"

\* submit_job: bool(Future) is True, a Future defines neither __bool__ nor __len__
SubmitJobResult == "True"

\* faulty variant: cancel_pending is not passed on to the pool
DrainsQueueNever(cancel_pending) == FALSE

\* shutdown(cancel_futures=cancel_pending): the drain loop runs when true
DrainsQueue(cancel_pending) == cancel_pending

\* faulty variant: shutdown returns without joining the workers
JoinedAtOnce(n, ended) == TRUE

\* shutdown(wait=True): `for t in self._threads: t.join()` returns once
\* every thread of the pool has ended
Joined(n, ended) == ended = n

\* the work items standing in the pool's queue, which shutdown's drain loop
\* would cancel (the None wake-up is no work item)
Queued(q) == {q[k] : k \in 1..Len(q)} \ {None}

\* the shutdown lock of the pool is held while shutdown drains the queue
Draining == pc[Main] = "drain"

\* A work item: the callable the pool runs (fn itself, or a wrapper with the
\* job id), and where it stands: "PENDING" and "CANCELLED" are states of its
\* future; "DEQUEUED" is the item returned to a worker by work_queue.get,
\* work_item.run() not yet called (future still pending); "pre_wait" (wrapper started, id not yet removed), "body" (fn
\* executing), "post_wait" (fn over, id not yet removed) and "post_done" (id
\* removed, wrapper returning) are the positions of the worker running it
\* (future RUNNING); "FINISHED" with the outcome.
NewItem(run_fn, job_id) ==
    [run_fn |-> run_fn, job_id |-> job_id, state |-> "PENDING", outcome |-> "none"]

\* _WorkItem.run sets the future's result or exception and the worker drops
\* the work item (`del work_item`): the future alone is left
Finished(outcome) ==
    [run_fn |-> "none", job_id |-> NoId, state |-> "FINISHED", outcome |-> outcome]

Executing(i) == items[i].state \in {"pre_wait", "body", "post_wait", "post_done"}

\* a worker holds item i, taken from the queue and not yet run
Dequeued(i) == items[i].state = "DEQUEUED"

\* ThreadPoolExecutor.submit on a live pool: put the work item, then
\* _adjust_thread_count: take a permit of the idle semaphore, else start a
\* thread below the maximum, which goes to work_queue.get(block=True)
PoolSubmit(run_fn, job_id) ==
    /\ items' = Append(items, NewItem(run_fn, job_id))
    /\ work_queue' = Append(work_queue, Len(items) + 1)
    /\ UNCHANGED <<releasing, exited>>
    /\ IF idle_semaphore > 0
       THEN /\ idle_semaphore' = idle_semaphore - 1
            /\ UNCHANGED <<threads, blocked>>
       ELSE /\ idle_semaphore' = idle_semaphore
            /\ IF threads < max_workers
               THEN /\ threads' = threads + 1
                    /\ blocked' = blocked + 1
               ELSE UNCHANGED <<threads, blocked>>

\* queue_length: `self._executor._work_queue.qsize()`, which counts every
\* entry of the queue, a None wake-up included
queue_length == Len(work_queue)

TypeOK ==
    /\ job_ids \subseteq Ids
    /\ lock \in Threads \cup {Free}
    /\ shutdown_flag \in BOOLEAN
    /\ max_workers \in 1..MaxWorkers
    /\ idle_semaphore \in 0..MaxCalls
    /\ threads \in 0..max_workers
    /\ queue_length \in 0..(MaxCalls + MaxShutdowns)
    /\ releasing + blocked + exited
         + Cardinality({i \in 1..Len(items) : Executing(i) \/ Dequeued(i)}) = threads
    /\ \A k \in 1..Len(work_queue) : work_queue[k] \in 0..Len(items)
    /\ \A i \in 1..Len(items) :
          /\ items[i].run_fn \in RunFns \cup {"none"}
          /\ items[i].job_id \in Ids \cup {NoId}
          /\ items[i].state \in {"PENDING", "DEQUEUED", "CANCELLED", "pre_wait", "body",
                                 "post_wait", "post_done", "FINISHED"}
    /\ ncalls \in 0..MaxCalls
    /\ nshutdowns \in 0..MaxShutdowns \cup 0..MaxExecShutdowns

\* _JobExecutorEngine.__init__: an open pool with no thread yet, a free
\* lock, an empty reserved set
EngineInit ==
    /\ job_ids = {}
    /\ lock = Free
    /\ work_queue = <<>>
    /\ shutdown_flag = FALSE
    /\ idle_semaphore = 0
    /\ threads = 0
    /\ releasing = 0
    /\ blocked = 0
    /\ exited = 0
    /\ items = <<>>
    /\ pc = [c \in Threads |-> "idle"]
    /\ call = [c \in Threads |-> NoCall]
    /\ last = Returned(NoCall, "none")
    /\ ncalls = 0
    /\ nshutdowns = 0
    /\ sd = NoShutdown

\* the module as imported with ENGINE_BACKGROUND_THREADS unset and
\* _job_executor = None
ModuleStart ==
    /\ env = Unset
    /\ job_executor = None
    /\ engines = <<>>

\* an engine constructed with max_workers = MaxWorkers
Init ==
    /\ EngineInit
    /\ max_workers = MaxWorkers
    /\ ModuleStart

\* ------------------------------------------------------------ submissions

\* submit_job / bg_run: straight to the pool, no lock, no reserved set
SubmitJob(c) ==
    /\ pc[c] = "idle"
    /\ ncalls < MaxCalls
    /\ ~Draining
    /\ ncalls' = ncalls + 1
    /\ IF PoolRefuses(shutdown_flag)
       THEN /\ last' = Returned([op |-> "plain", id |-> NoId], "RuntimeError")
            /\ UNCHANGED poolVars
       ELSE /\ last' = Returned([op |-> "plain", id |-> NoId], SubmitJobResult)
            /\ PoolSubmit("plain", NoId)
    /\ UNCHANGED <<job_ids, lock, shutdown_flag, pc, call, nshutdowns, sd>>
    /\ UNCHANGED setupVars

\* submit_unique_job_pre / submit_unique_job_post enter _submit_job, take
\* self._lock and test `job_id in self._job_ids`: found, the call is about
\* to return False; not found, it adds the id (line 59) and is about to
\* call self._executor.submit (line 60)
SubmitEnter(c, run_fn, job_id) ==
    /\ pc[c] = "idle"
    /\ ncalls < MaxCalls
    /\ lock = Free
    /\ lock' = c
    /\ call' = [call EXCEPT ![c] = [op |-> run_fn, id |-> job_id, before |-> job_ids]]
    /\ ncalls' = ncalls + 1
    /\ IF Conflicting(job_id, job_ids)
       THEN /\ pc' = [pc EXCEPT ![c] = "duplicate"]
            /\ UNCHANGED job_ids
       ELSE /\ pc' = [pc EXCEPT ![c] = "locked"]
            /\ job_ids' = Reserve(job_id, job_ids)
    /\ UNCHANGED <<shutdown_flag, last, nshutdowns, sd, poolVars>>
    /\ UNCHANGED setupVars

\* _submit_job with the lock held, the id found reserved: log, return False
SubmitDuplicate(c) ==
    /\ pc[c] = "duplicate"
    /\ last' = Returned(call[c], "False")
    /\ call' = [call EXCEPT ![c] = NoCall]
    /\ pc' = [pc EXCEPT ![c] = "idle"]
    /\ lock' = Free
    /\ UNCHANGED <<job_ids, shutdown_flag, ncalls, nshutdowns, sd, poolVars>>
    /\ UNCHANGED setupVars

\* _submit_job with the lock held and the id added: self._executor.submit,
\* which waits for the pool's own lock while a shutdown drains the queue;
\* the pool's RuntimeError leaves through the `with` block, the id staying
SubmitSchedule(c) ==
    /\ pc[c] = "locked"
    /\ ~Draining
    /\ IF PoolRefuses(shutdown_flag)
       THEN /\ last' = Returned(call[c], "RuntimeError")
            /\ UNCHANGED poolVars
       ELSE /\ last' = Returned(call[c], "True")
            /\ PoolSubmit(call[c].op, call[c].id)
    /\ call' = [call EXCEPT ![c] = NoCall]
    /\ pc' = [pc EXCEPT ![c] = "idle"]
    /\ lock' = Free
    /\ UNCHANGED <<job_ids, shutdown_flag, ncalls, nshutdowns, sd>>
    /\ UNCHANGED setupVars

\* ---------------------------------------------------------------- shutdown

\* shutdown(wait, cancel_pending): set _shutdown; without cancel_futures
\* put the None wake-up at once
ShutdownCall(c, wait, cancel_pending) ==
    /\ c = Main
    /\ pc[c] = "idle"
    /\ nshutdowns < MaxShutdowns
    /\ nshutdowns' = nshutdowns + 1
    /\ shutdown_flag' = TRUE
    /\ IF DrainsQueue(cancel_pending)
       THEN /\ pc' = [pc EXCEPT ![c] = "drain"]
            /\ sd' = [wait |-> wait, cancel |-> cancel_pending,
                      snap |-> Queued(work_queue), state |-> "draining",
                      drained |-> sd.drained]
            /\ UNCHANGED work_queue
       ELSE /\ work_queue' = Append(work_queue, None)
            /\ pc' = [pc EXCEPT ![c] = IF wait THEN "join" ELSE "idle"]
            /\ sd' = [wait |-> wait, cancel |-> cancel_pending,
                      snap |-> Queued(work_queue),
                      state |-> IF wait THEN "joining" ELSE "returned",
                      drained |-> sd.drained \/ cancel_pending]
    /\ UNCHANGED <<job_ids, lock, idle_semaphore, items, workerVars,
                   call, last, ncalls>>
    /\ UNCHANGED setupVars

\* one round of the drain loop: get_nowait, cancel the future; on Empty
\* put the None wake-up and leave the loop
ShutdownDrain(c) ==
    /\ pc[c] = "drain"
    /\ IF work_queue = <<>>
       THEN /\ work_queue' = <<None>>
            /\ pc' = [pc EXCEPT ![c] = IF sd.wait THEN "join" ELSE "idle"]
            /\ sd' = [sd EXCEPT !.state = IF sd.wait THEN "joining" ELSE "returned",
                                !.drained = TRUE]
            /\ UNCHANGED items
       ELSE /\ work_queue' = Tail(work_queue)
            /\ items' = IF Head(work_queue) = None THEN items
                        ELSE [items EXCEPT ![Head(work_queue)].state = "CANCELLED"]
            /\ UNCHANGED <<pc, sd>>
    /\ UNCHANGED <<job_ids, lock, shutdown_flag, idle_semaphore, workerVars,
                   call, last, ncalls, nshutdowns>>
    /\ UNCHANGED setupVars

\* wait=True: the joins return once every worker thread has ended
ShutdownJoin(c) ==
    /\ pc[c] = "join"
    /\ Joined(threads, exited)
    /\ pc' = [pc EXCEPT ![c] = "idle"]
    /\ sd' = [sd EXCEPT !.state = "returned"]
    /\ UNCHANGED <<job_ids, lock, shutdown_flag, poolVars, call, last, ncalls,
                   nshutdowns>>
    /\ UNCHANGED setupVars

\* ----------------------------------------------------------------- workers

\* _worker: the task is over: `executor._idle_semaphore.release()`, then
\* back to work_queue.get(block=True)
WorkerRelease ==
    /\ releasing > 0
    /\ idle_semaphore' = idle_semaphore + 1
    /\ releasing' = releasing - 1
    /\ blocked' = blocked + 1
    /\ UNCHANGED <<job_ids, lock, work_queue, shutdown_flag, threads, exited, items,
                   callVars, nshutdowns, sd>>
    /\ UNCHANGED setupVars

\* _worker: get returns None: when the pool is shut down put it back and
\* end, else go back to get
WorkerWakeUp ==
    /\ blocked > 0
    /\ work_queue # <<>>
    /\ Head(work_queue) = None
    /\ IF shutdown_flag
       THEN /\ work_queue' = Append(Tail(work_queue), None)
            /\ blocked' = blocked - 1
            /\ exited' = exited + 1
       ELSE /\ work_queue' = Tail(work_queue)
            /\ UNCHANGED <<blocked, exited>>
    /\ UNCHANGED <<job_ids, lock, shutdown_flag, idle_semaphore, threads, releasing,
                   items, callVars, nshutdowns, sd>>
    /\ UNCHANGED setupVars

\* _worker: `work_item = work_queue.get(block=True)` returns a work item,
\* which is out of the queue and in the worker's hands from here on
WorkerGet ==
    /\ blocked > 0
    /\ work_queue # <<>>
    /\ Head(work_queue) # None
    /\ work_queue' = Tail(work_queue)
    /\ blocked' = blocked - 1
    /\ items' = [items EXCEPT ![Head(work_queue)].state = "DEQUEUED"]
    /\ UNCHANGED <<job_ids, lock, shutdown_flag, idle_semaphore, threads, releasing,
                   exited, callVars, nshutdowns, sd>>
    /\ UNCHANGED setupVars

\* _worker: `work_item.run()` on the item it took: the future, still
\* pending, is marked running and the wrapper (_run_pre_job, _run_post_job)
\* or, unkeyed, fn itself is called
WorkerRun(i) ==
    /\ Dequeued(i)
    /\ items' = [items EXCEPT ![i].state =
                    IF ReleaseAtStart(items[i].run_fn) THEN "pre_wait" ELSE "body"]
    /\ UNCHANGED <<job_ids, lock, work_queue, shutdown_flag, idle_semaphore, workerVars,
                   callVars, nshutdowns, sd>>
    /\ UNCHANGED setupVars

\* work_item.run() is over (returned or raised into the future): the
\* worker goes on in its loop
TaskOver(outcome) ==
    /\ IF Absorbed(outcome)
       THEN releasing' = releasing + 1 /\ UNCHANGED exited
       ELSE exited' = exited + 1 /\ UNCHANGED releasing
    /\ UNCHANGED <<threads, blocked>>

\* _run_pre_job: under self._lock remove the id, then go on to fn; a
\* KeyError ends the task before fn
PreRemove(i) ==
    /\ items[i].state = "pre_wait"
    /\ lock = Free
    /\ IF items[i].job_id \in job_ids
       THEN /\ job_ids' = Release(items[i].job_id, job_ids)
            /\ items' = [items EXCEPT ![i].state = "body"]
            /\ lock' = LockAtFn(Runner(i))
            /\ UNCHANGED workerVars
       ELSE /\ items' = [items EXCEPT ![i] = Finished("KeyError")]
            /\ TaskOver("KeyError")
            /\ UNCHANGED <<job_ids, lock>>
    /\ UNCHANGED <<work_queue, shutdown_flag, idle_semaphore,
                   callVars, nshutdowns, sd>>
    /\ UNCHANGED setupVars

\* fn returns or raises.  Unkeyed and pre: the task is over.  Post: on to
\* the finally clause
BodyEnd(i, outcome) ==
    /\ items[i].state = "body"
    /\ pc[Runner(i)] = "idle"
    /\ IF items[i].run_fn = "post" /\ CleanupRuns(outcome)
       THEN /\ items' = [items EXCEPT ![i].state = "post_wait", ![i].outcome = outcome]
            /\ UNCHANGED workerVars
       ELSE /\ items' = [items EXCEPT ![i] = Finished(outcome)]
            /\ TaskOver(outcome)
    /\ UNCHANGED <<job_ids, lock, work_queue, shutdown_flag, idle_semaphore,
                   callVars, nshutdowns, sd>>
    /\ UNCHANGED setupVars

\* _run_post_job, finally: under self._lock remove the id; a KeyError
\* replaces what fn raised
PostRemove(i) ==
    /\ items[i].state = "post_wait"
    /\ lock = Free
    /\ IF items[i].job_id \in job_ids
       THEN /\ job_ids' = Release(items[i].job_id, job_ids)
            /\ items' = [items EXCEPT ![i].state = "post_done"]
       ELSE /\ items' = [items EXCEPT ![i].state = "post_done", ![i].outcome = "KeyError"]
            /\ UNCHANGED job_ids
    /\ UNCHANGED <<lock, work_queue, shutdown_flag, idle_semaphore, workerVars,
                   callVars, nshutdowns, sd>>
    /\ UNCHANGED setupVars

\* _run_post_job returns, or what it raised leaves it: the task is over
PostReturn(i) ==
    /\ items[i].state = "post_done"
    /\ items' = [items EXCEPT ![i] = Finished(items[i].outcome)]
    /\ TaskOver(items[i].outcome)
    /\ UNCHANGED <<job_ids, lock, work_queue, shutdown_flag, idle_semaphore,
                   callVars, nshutdowns, sd>>
    /\ UNCHANGED setupVars

\* ------------------------------------------------------------ specification

Next ==
    \/ \E c \in Callers : SubmitJob(c)
    \/ \E c \in Callers, f \in {"pre", "post"}, j \in Ids : SubmitEnter(c, f, j)
    \/ \E c \in Callers : SubmitDuplicate(c)
    \/ \E c \in Callers : SubmitSchedule(c)
    \/ \E c \in Callers, wt \in BOOLEAN, cp \in BOOLEAN : ShutdownCall(c, wt, cp)
    \/ \E c \in Callers : ShutdownDrain(c)
    \/ \E c \in Callers : ShutdownJoin(c)
    \/ WorkerRelease
    \/ WorkerWakeUp
    \/ WorkerGet
    \/ \E i \in 1..Len(items) : WorkerRun(i)
    \/ \E i \in 1..Len(items) : PreRemove(i)
    \/ \E i \in 1..Len(items), o \in Outcomes : BodyEnd(i, o)
    \/ \E i \in 1..Len(items) : PostRemove(i)
    \/ \E i \in 1..Len(items) : PostReturn(i)

Spec == Init /\ [][Next]_vars

\* ------------------------------------------- no shutdown, fair scheduling

\* the executor with shutdown never called: no None is ever queued
LiveNext ==
    \/ \E c \in Callers : SubmitJob(c)
    \/ \E c \in Callers, f \in {"pre", "post"}, j \in Ids : SubmitEnter(c, f, j)
    \/ \E c \in Callers : SubmitDuplicate(c)
    \/ \E c \in Callers : SubmitSchedule(c)
    \/ WorkerRelease
    \/ WorkerGet
    \/ \E i \in 1..Len(items) : WorkerRun(i)
    \/ \E i \in 1..Len(items) : PreRemove(i)
    \/ \E i \in 1..Len(items), o \in Outcomes : BodyEnd(i, o)
    \/ \E i \in 1..Len(items) : PostRemove(i)
    \/ \E i \in 1..Len(items) : PostReturn(i)

\* every thread that can go on does go on: a calling thread inside
\* _submit_job, a worker at its loop or inside a wrapper; and every fn ends
LiveFairness ==
    /\ WF_vars(\E c \in Callers : SubmitDuplicate(c) \/ SubmitSchedule(c))
    /\ WF_vars(WorkerRelease)
    /\ WF_vars(WorkerGet)
    /\ WF_vars(\E i \in 1..Len(items) : WorkerRun(i))
    /\ WF_vars(\E i \in 1..Len(items) : PreRemove(i))
    /\ WF_vars(\E i \in 1..Len(items), o \in Outcomes : BodyEnd(i, o))
    /\ WF_vars(\E i \in 1..Len(items) : PostRemove(i))
    /\ WF_vars(\E i \in 1..Len(items) : PostReturn(i))

\* an engine constructed with any pool size, down to a single worker
LiveInit ==
    /\ EngineInit
    /\ max_workers \in 1..MaxWorkers
    /\ ModuleStart

LiveSpec == LiveInit /\ [][LiveNext]_vars /\ LiveFairness

\* ------------------------------------------- a task's fn that submits itself

\* fn, running on a pool thread, calls submit_job / bg_run
FnSubmitJob(i) ==
    /\ items[i].state = "body"
    /\ SubmitJob(Runner(i))

\* fn, running on a pool thread, calls submit_unique_job_pre / _post
\* (bg_run_unique_pre / _post) with its own id or another
FnSubmitEnter(i, run_fn, job_id) ==
    /\ items[i].state = "body"
    /\ SubmitEnter(Runner(i), run_fn, job_id)

Runners == Threads \ Callers

NestedNext ==
    \/ Next
    \/ \E i \in 1..Len(items) : FnSubmitJob(i)
    \/ \E i \in 1..Len(items), f \in {"pre", "post"}, j \in Ids : FnSubmitEnter(i, f, j)
    \/ \E c \in Runners : SubmitDuplicate(c)
    \/ \E c \in Runners : SubmitSchedule(c)

NestedSpec == Init /\ [][NestedNext]_vars

\* ------------------------------------------------- module-level functions

engineVars == <<job_ids, lock, work_queue, shutdown_flag, idle_semaphore, workerVars,
                items, sd, max_workers>>

\* os.getenv(name, default): the default when the name is unset, else the
\* text of the setting as it stands
Getenv(setting, default) ==
    IF setting = Unset THEN [type |-> "int", int |-> default, text |-> ""]
                       ELSE [type |-> "str", int |-> 0, text |-> setting]

DEFAULT_BG_THREADS == Getenv(env, DefaultThreads)

\* ThreadPoolExecutor(max_workers=...) tests `max_workers <= 0`: TypeError
\* for a str, ValueError for an int that is not positive
PoolConstruction(mw) ==
    IF mw.type = "str" THEN "TypeError"
    ELSE IF mw.int <= 0 THEN "ValueError" ELSE "ok"

\* an engine as _get_exec constructs it: its pool size, the shutdown calls
\* made on it (_shutdown is set from the first on), the tasks it accepted,
\* how many of them are neither over nor cancelled, its reserved set, the
\* thread inside `with self._lock`, and those tasks in the order of their
\* submission.  A task is "queued" (in the work queue), "dequeued" (returned
\* to a worker by work_queue.get), then where the wrappers stand:
\* "pre_wait", "body", "post_wait", "post_done"
NewEngine(mw) ==
    [max_workers |-> mw.int, shutdowns |-> 0, tasks |-> 0, active |-> 0,
     job_ids |-> {}, lock |-> Free, jobs |-> <<>>]

\* the work item of submission number no
NewJob(no, run_fn, job_id) ==
    [no |-> no, op |-> run_fn, id |-> job_id, phase |-> "queued"]

RemoveAt(q, k) == SubSeq(q, 1, k - 1) \o SubSeq(q, k + 1, Len(q))

\* the positions of the tasks of engine e that stand in its work queue
QueuedAt(e) == {k \in 1..Len(engines[e].jobs) : engines[e].jobs[k].phase = "queued"}

\* the head of that queue
HeadAt(e) == CHOOSE k \in QueuedAt(e) : \A h \in QueuedAt(e) : k <= h

\* the pool's _shutdown_lock is held by a shutdown that drains the queue
BgDraining(e) == \E t \in Threads : pc[t] = "drain" /\ call[t].engine = e

\* thread t is a worker of engine e's pool: it is running one of its tasks
OwnPool(t, e) == \E k \in 1..Len(engines[e].jobs) : t = Runner(engines[e].jobs[k].no)

\* thread t can make a call: a calling thread, or a pool thread inside fn
InFn(t) ==
    \/ t \in Callers
    \/ \E e \in 1..Len(engines) : \E k \in 1..Len(engines[e].jobs) :
           t = Runner(engines[e].jobs[k].no) /\ engines[e].jobs[k].phase = "body"

\* engine e with task k over: the worker drops the work item
TaskGone(e, k) ==
    [engines EXCEPT ![e].jobs = RemoveAt(@, k), ![e].active = @ - 1]

BgExecShutdownCall == [op |-> "shutdown", id |-> NoId, before |-> {}]

\* faulty variant: bg_exec_shutdown goes on whatever _job_executor is
NothingToShutDownNever(je) == FALSE

\* bg_exec_shutdown: `if _job_executor is None: return`
NothingToShutDown(je) == je = None

\* bg_run(fn), bg_run_unique_pre(id, fn), bg_run_unique_post(id, fn) and
\* its alias bg_run_unique: each begins with _get_exec, which tests
\* `_job_executor is None`
BgRunBegin(c, run_fn, job_id) ==
    /\ pc[c] = "idle"
    /\ ncalls < MaxCalls
    /\ (run_fn = "plain") = (job_id = NoId)
    /\ ncalls' = ncalls + 1
    /\ call' = [call EXCEPT ![c] = [op |-> run_fn, id |-> job_id, before |-> {},
                                    no |-> ncalls + 1, engine |-> None]]
    /\ pc' = [pc EXCEPT ![c] = IF job_executor = None THEN "construct" ELSE "return"]
    /\ UNCHANGED <<last, nshutdowns, moduleVars, engineVars>>

\* _get_exec, having found None: `_job_executor = _JobExecutorEngine()`;
\* what the constructor raises leaves the call
BgRunConstruct(c) ==
    /\ pc[c] = "construct"
    /\ IF PoolConstruction(DEFAULT_BG_THREADS) = "ok"
       THEN /\ engines' = Append(engines, NewEngine(DEFAULT_BG_THREADS))
            /\ job_executor' = Len(engines) + 1
            /\ pc' = [pc EXCEPT ![c] = "return"]
            /\ UNCHANGED <<last, call>>
       ELSE /\ last' = Returned(call[c], PoolConstruction(DEFAULT_BG_THREADS))
            /\ pc' = [pc EXCEPT ![c] = "idle"]
            /\ call' = [call EXCEPT ![c] = NoCall]
            /\ UNCHANGED <<engines, job_executor>>
    /\ UNCHANGED <<ncalls, nshutdowns, env, engineVars>>

\* _get_exec: `return _job_executor`: the engine the global names at this
\* moment is the one the call goes on with
BgRunReturn(c) ==
    /\ pc[c] = "return"
    /\ call' = [call EXCEPT ![c].engine = job_executor]
    /\ pc' = [pc EXCEPT ![c] = "submit"]
    /\ UNCHANGED <<last, ncalls, nshutdowns, moduleVars, engineVars>>

\* self._executor.submit on engine e: RuntimeError once shut down, else the
\* work item is queued (a worker is there for it: the pool has more workers
\* than there are tasks)
EngineSchedule(e, no, run_fn, job_id) ==
    IF PoolRefuses(engines[e].shutdowns > 0)
    THEN engines
    ELSE [engines EXCEPT ![e].tasks = @ + 1,
                         ![e].active = @ + 1,
                         ![e].jobs = Append(@, NewJob(no, run_fn, job_id))]

\* what the submission returns or raises
ScheduleResult(e, accepted) ==
    IF PoolRefuses(engines[e].shutdowns > 0) THEN "RuntimeError" ELSE accepted

\* bg_run: submit_job on the engine _get_exec returned: straight to the
\* pool, which makes the caller wait while a shutdown drains its queue
BgRunSubmitJob(c) ==
    /\ pc[c] = "submit"
    /\ call[c].op = "plain"
    /\ ~BgDraining(call[c].engine)
    /\ engines' = EngineSchedule(call[c].engine, call[c].no, "plain", NoId)
    /\ last' = Returned(call[c], ScheduleResult(call[c].engine, SubmitJobResult))
    /\ pc' = [pc EXCEPT ![c] = "idle"]
    /\ call' = [call EXCEPT ![c] = NoCall]
    /\ UNCHANGED <<ncalls, nshutdowns, env, job_executor, engineVars>>

\* bg_run_unique_pre / _post: _submit_job on the engine _get_exec returned
\* takes that engine's lock and tests `job_id in self._job_ids`: found, the
\* call is about to return False; not found, it adds the id
BgRunEnter(c) ==
    /\ pc[c] = "submit"
    /\ call[c].op # "plain"
    /\ LET e == call[c].engine
           ids == engines[e].job_ids
       IN  /\ engines[e].lock = Free
           /\ UNCHANGED call
           /\ IF Conflicting(call[c].id, ids)
              THEN /\ pc' = [pc EXCEPT ![c] = "duplicate"]
                   /\ engines' = [engines EXCEPT ![e].lock = c]
              ELSE /\ pc' = [pc EXCEPT ![c] = "locked"]
                   /\ engines' = [engines EXCEPT ![e].lock = c,
                                     ![e].job_ids = Reserve(call[c].id, ids)]
    /\ UNCHANGED <<last, ncalls, nshutdowns, env, job_executor, engineVars>>

\* _submit_job with the lock held, the id found reserved: return False
BgRunDuplicate(c) ==
    /\ pc[c] = "duplicate"
    /\ engines' = [engines EXCEPT ![call[c].engine].lock = Free]
    /\ last' = Returned(call[c], "False")
    /\ pc' = [pc EXCEPT ![c] = "idle"]
    /\ call' = [call EXCEPT ![c] = NoCall]
    /\ UNCHANGED <<ncalls, nshutdowns, env, job_executor, engineVars>>

\* _submit_job with the lock held and the id added: self._executor.submit;
\* the pool's RuntimeError leaves through the `with` block, the id staying
BgRunSchedule(c) ==
    /\ pc[c] = "locked"
    /\ ~BgDraining(call[c].engine)
    /\ LET e == call[c].engine IN
       /\ engines' = [EngineSchedule(e, call[c].no, call[c].op, call[c].id)
                        EXCEPT ![e].lock = Free]
       /\ last' = Returned(call[c], ScheduleResult(e, "True"))
    /\ pc' = [pc EXCEPT ![c] = "idle"]
    /\ call' = [call EXCEPT ![c] = NoCall]
    /\ UNCHANGED <<ncalls, nshutdowns, env, job_executor, engineVars>>

\* a worker of engine e: work_queue.get returns the task at the head
BgWorkerGet(e) ==
    /\ QueuedAt(e) # {}
    /\ Len(engines[e].jobs) - Cardinality(QueuedAt(e)) < engines[e].max_workers
    /\ engines' = [engines EXCEPT ![e].jobs[HeadAt(e)].phase = "dequeued"]
    /\ UNCHANGED <<callVars, nshutdowns, env, job_executor, engineVars>>

\* that worker calls work_item.run(): the wrapper, or unkeyed fn, starts
BgWorkerRun(e, k) ==
    /\ k \in 1..Len(engines[e].jobs)
    /\ engines[e].jobs[k].phase = "dequeued"
    /\ engines' = [engines EXCEPT ![e].jobs[k].phase =
                      IF ReleaseAtStart(engines[e].jobs[k].op) THEN "pre_wait"
                                                                ELSE "body"]
    /\ UNCHANGED <<callVars, nshutdowns, env, job_executor, engineVars>>

\* _run_pre_job: under the engine's lock remove the id, then go on to fn;
\* a KeyError ends the task before fn
BgPreRemove(e, k) ==
    /\ k \in 1..Len(engines[e].jobs)
    /\ engines[e].jobs[k].phase = "pre_wait"
    /\ engines[e].lock = Free
    /\ engines' = IF engines[e].jobs[k].id \in engines[e].job_ids
                  THEN [engines EXCEPT
                           ![e].job_ids = Release(engines[e].jobs[k].id, @),
                           ![e].jobs[k].phase = "body"]
                  ELSE TaskGone(e, k)
    /\ UNCHANGED <<callVars, nshutdowns, env, job_executor, engineVars>>

\* fn returns or raises, no call of its own under way.  Unkeyed and pre:
\* the task is over.  Post: on to the finally clause
BgBodyEnd(e, k) ==
    /\ k \in 1..Len(engines[e].jobs)
    /\ engines[e].jobs[k].phase = "body"
    /\ pc[Runner(engines[e].jobs[k].no)] = "idle"
    /\ engines' = IF engines[e].jobs[k].op = "post"
                  THEN [engines EXCEPT ![e].jobs[k].phase = "post_wait"]
                  ELSE TaskGone(e, k)
    /\ UNCHANGED <<callVars, nshutdowns, env, job_executor, engineVars>>

\* _run_post_job, finally: under the engine's lock remove the id
BgPostRemove(e, k) ==
    /\ k \in 1..Len(engines[e].jobs)
    /\ engines[e].jobs[k].phase = "post_wait"
    /\ engines[e].lock = Free
    /\ engines' = [engines EXCEPT
                      ![e].job_ids = Release(engines[e].jobs[k].id, @),
                      ![e].jobs[k].phase = "post_done"]
    /\ UNCHANGED <<callVars, nshutdowns, env, job_executor, engineVars>>

\* _run_post_job returns, or what it raised leaves it: the task is over
BgPostReturn(e, k) ==
    /\ k \in 1..Len(engines[e].jobs)
    /\ engines[e].jobs[k].phase = "post_done"
    /\ engines' = TaskGone(e, k)
    /\ UNCHANGED <<callVars, nshutdowns, env, job_executor, engineVars>>

\* bg_exec_shutdown(wait, cancel_pending), called by a calling thread or
\* from inside fn: `if _job_executor is None: return`
BgExecShutdown(t, wait, cancel_pending) ==
    /\ InFn(t)
    /\ pc[t] = "idle"
    /\ nshutdowns < MaxExecShutdowns
    /\ nshutdowns' = nshutdowns + 1
    /\ IF NothingToShutDown(job_executor)
       THEN /\ last' = Returned(BgExecShutdownCall, "None")
            /\ UNCHANGED <<pc, call>>
       ELSE /\ pc' = [pc EXCEPT ![t] = "shutdown"]
            /\ call' = [call EXCEPT ![t] =
                           [op |-> "shutdown", id |-> NoId, before |-> {},
                            wait |-> wait, cancel |-> cancel_pending,
                            engine |-> None]]
            /\ UNCHANGED last
    /\ UNCHANGED <<ncalls, moduleVars, engineVars>>

\* where a shutdown stands once the pool's _shutdown_lock is given up: at
\* the joins with wait=True, else returned
AfterShutdownLock(t) ==
    /\ IF call[t].wait
       THEN /\ pc' = [pc EXCEPT ![t] = "join"]
            /\ UNCHANGED last
       ELSE /\ pc' = [pc EXCEPT ![t] = "idle"]
            /\ last' = Returned(BgExecShutdownCall, "None")

\* bg_exec_shutdown, line 140: `_job_executor` is read again, and the
\* engine the global names at this moment is the one shutdown is called on
\* (None has no shutdown: AttributeError)
BgExecShutdownRead(t) ==
    /\ pc[t] = "shutdown"
    /\ IF job_executor = None
       THEN /\ last' = Returned(BgExecShutdownCall, "AttributeError")
            /\ pc' = [pc EXCEPT ![t] = "idle"]
            /\ call' = [call EXCEPT ![t] = NoCall]
       ELSE /\ pc' = [pc EXCEPT ![t] = "shutting"]
            /\ call' = [call EXCEPT ![t].engine = job_executor]
            /\ UNCHANGED last
    /\ UNCHANGED <<ncalls, nshutdowns, moduleVars, engineVars>>

\* _JobExecutorEngine.shutdown on the engine that was read: the pool takes
\* its _shutdown_lock and sets _shutdown, then drains the queue with
\* cancel_pending, else puts its None wake-up and gives the lock up
BgExecShutdownEnter(t) ==
    /\ pc[t] = "shutting"
    /\ ~BgDraining(call[t].engine)
    /\ engines' = [engines EXCEPT ![call[t].engine].shutdowns = @ + 1]
    /\ IF DrainsQueue(call[t].cancel)
       THEN /\ pc' = [pc EXCEPT ![t] = "drain"]
            /\ UNCHANGED <<call, last>>
       ELSE /\ AfterShutdownLock(t)
            /\ call' = [call EXCEPT ![t] = IF call[t].wait THEN call[t] ELSE NoCall]
    /\ UNCHANGED <<ncalls, nshutdowns, env, job_executor, engineVars>>

\* one round of the drain loop: get_nowait takes the head of the queue and
\* cancels its future (the id of a keyed task stays reserved); on Empty the
\* loop ends, the None wake-up is put and the lock given up
BgExecShutdownDrain(t) ==
    /\ pc[t] = "drain"
    /\ LET e == call[t].engine IN
       IF QueuedAt(e) # {}
       THEN /\ engines' = TaskGone(e, HeadAt(e))
            /\ UNCHANGED <<pc, call, last>>
       ELSE /\ AfterShutdownLock(t)
            /\ call' = [call EXCEPT ![t] = IF call[t].wait THEN call[t] ELSE NoCall]
            /\ UNCHANGED engines
    /\ UNCHANGED <<ncalls, nshutdowns, env, job_executor, engineVars>>

\* wait=True: `for t in self._threads: t.join()`.  Joining the calling
\* thread itself, a worker of this pool, raises RuntimeError, whenever the
\* loop comes to it; a thread from outside the pool waits for the workers to
\* end, which they do when every task of the engine is over
BgExecShutdownJoin(t) ==
    /\ pc[t] = "join"
    /\ IF OwnPool(t, call[t].engine)
       THEN last' = Returned(BgExecShutdownCall, "RuntimeError")
       ELSE /\ engines[call[t].engine].active = 0
            /\ last' = Returned(BgExecShutdownCall, "None")
    /\ pc' = [pc EXCEPT ![t] = "idle"]
    /\ call' = [call EXCEPT ![t] = NoCall]
    /\ UNCHANGED <<ncalls, nshutdowns, moduleVars, engineVars>>

\* the module as imported, whatever ENGINE_BACKGROUND_THREADS is
ModuleInit ==
    /\ EngineInit
    /\ max_workers = MaxWorkers
    /\ env \in EnvSettings
    /\ job_executor = None
    /\ engines = <<>>

\* the threads that call bg_exec_shutdown: Main, the owning thread, and
\* the pool threads from inside fn
ShutdownCallers == {Main} \cup Runners

ModuleNext ==
    \/ \E c \in Callers : BgRunBegin(c, "plain", NoId)
    \/ \E c \in Callers, f \in {"pre", "post"}, j \in Ids : BgRunBegin(c, f, j)
    \/ \E c \in Callers : BgRunConstruct(c)
    \/ \E c \in Callers : BgRunReturn(c)
    \/ \E c \in Callers : BgRunSubmitJob(c)
    \/ \E c \in Callers : BgRunEnter(c)
    \/ \E c \in Callers : BgRunDuplicate(c)
    \/ \E c \in Callers : BgRunSchedule(c)
    \/ \E e \in 1..Len(engines) : BgWorkerGet(e)
    \/ \E e \in 1..Len(engines), k \in 1..MaxCalls : BgWorkerRun(e, k)
    \/ \E e \in 1..Len(engines), k \in 1..MaxCalls : BgPreRemove(e, k)
    \/ \E e \in 1..Len(engines), k \in 1..MaxCalls : BgBodyEnd(e, k)
    \/ \E e \in 1..Len(engines), k \in 1..MaxCalls : BgPostRemove(e, k)
    \/ \E e \in 1..Len(engines), k \in 1..MaxCalls : BgPostReturn(e, k)
    \/ \E t \in ShutdownCallers, wt \in BOOLEAN, cp \in BOOLEAN :
           BgExecShutdown(t, wt, cp)
    \/ \E t \in ShutdownCallers : BgExecShutdownRead(t)
    \/ \E t \in ShutdownCallers : BgExecShutdownEnter(t)
    \/ \E t \in ShutdownCallers : BgExecShutdownDrain(t)
    \/ \E t \in ShutdownCallers : BgExecShutdownJoin(t)

ModuleSpec == ModuleInit /\ [][ModuleNext]_vars

\* ------------------------------------------------------------------ claims

ItemNos == 1..Len(items)

Keyed(i) == items[i].run_fn \in {"pre", "post"}

\* An accepted keyed job is in its reserved interval from its acceptance up
\* to its release point: the wrapper's removal of the id, which a pre job
\* reaches before fn and a post job after fn.  A cancelled job never
\* reaches it.
Reserved(i) ==
    \/ items[i].run_fn = "pre"
          /\ items[i].state \in {"PENDING", "DEQUEUED", "CANCELLED", "pre_wait"}
    \/ items[i].run_fn = "post"
          /\ items[i].state \in {"PENDING", "DEQUEUED", "CANCELLED", "body", "post_wait"}

Holders(id) == {i \in ItemNos : Keyed(i) /\ items[i].job_id = id /\ Reserved(i)}

\* the step in which calling thread c leaves _submit_job
KeyedReturns(c) == pc[c] \in {"locked", "duplicate"} /\ pc'[c] = "idle"

\* the step that is a whole submit_job call
UnkeyedReturns == ncalls' = ncalls + 1 /\ pc' = pc

\* the state of a task whose wrapper (or, unkeyed, fn) has started
Started(st) == st \in {"pre_wait", "body", "post_wait", "post_done", "FINISHED"}

\* C1: for every id, at most one accepted job tagged with it is in its
\* reserved interval at any time, whatever the styles: a keyed submission is
\* accepted only when no earlier accepted job with the id is still reserved.
C1_OneReservedPerId == \A id \in Ids : Cardinality(Holders(id)) <= 1

\* a pre job released its id and is still executing fn, and a post job
\* accepted afterwards under the same id is reserved
C1_Witness ==
    \E i, k \in ItemNos :
        /\ i < k
        /\ items[i].run_fn = "pre" /\ items[i].state = "body"
        /\ items[k].run_fn = "post" /\ items[k].job_id = items[i].job_id
        /\ Reserved(k)

\* a post job under id is queued or executing fn (its removal still to come)
PostBusy(id) ==
    \E i \in ItemNos :
        /\ items[i].run_fn = "post" /\ items[i].job_id = id
        /\ items[i].state \in {"PENDING", "DEQUEUED", "body", "post_wait"}

\* C2: post style: a submit_unique_job_post(id) made while an accepted post
\* job with that id is queued or executing returns False and schedules
\* nothing; it returns True only after that job's fn has returned or failed
\* and the id has been removed; so no two post jobs with the same id execute
\* fn at the same time.
C2_PostExclusive ==
    /\ [][\A c \in Callers :
            (KeyedReturns(c) /\ call[c].op = "post") =>
                /\ PostBusy(call[c].id) =>
                      (last'.result = "False" /\ items' = items)
                /\ last'.result = "True" => ~PostBusy(call[c].id)]_vars
    /\ [](\A i, k \in ItemNos :
            (/\ i # k
             /\ items[i].run_fn = "post" /\ items[k].run_fn = "post"
             /\ items[i].job_id = items[k].job_id)
            => ~(items[i].state = "body" /\ items[k].state = "body"))

\* the first post job is executing fn and the second submission under its
\* id has returned False
C2_Witness ==
    /\ Len(items) = 1 /\ ncalls = 2
    /\ items[1].run_fn = "post" /\ items[1].state = "body"
    /\ last = [op |-> "post", id |-> items[1].job_id, result |-> "False"]

\* C3: pre style: a submit_unique_job_pre(id) returns False while an accepted
\* pre job with that id is still queued, and (the pool still open) returns
\* True once no job holds the id any more, that is as soon as the earlier
\* job's wrapper has started and removed the id, fn still executing or not.
C3_PreReleasesAtStart ==
    [][\A c \in Callers :
          (KeyedReturns(c) /\ call[c].op = "pre") =>
              /\ (\E i \in ItemNos :
                      /\ items[i].run_fn = "pre" /\ items[i].job_id = call[c].id
                      /\ items[i].state \in {"PENDING", "DEQUEUED"})
                    => last'.result = "False"
              /\ (Holders(call[c].id) = {} /\ ~shutdown_flag)
                    => last'.result = "True"]_vars

\* two pre jobs with the same id execute fn at the same time
C3_Witness ==
    \E i, k \in ItemNos :
        /\ i < k
        /\ items[i].run_fn = "pre" /\ items[k].run_fn = "pre"
        /\ items[i].job_id = items[k].job_id
        /\ items[i].state = "body" /\ items[k].state = "body"

\* C4: a post job leaves fn, returned or raised, only into the finally
\* clause; it leaves the finally clause only by removing its id from the
\* reserved set; and it is over only after that.  So a post job whose fn
\* raises does not leave its id reserved.
C4_PostCleanupOnFailure ==
    [][\A i \in ItemNos :
          items[i].run_fn = "post" =>
              /\ (items[i].state = "body" /\ items'[i].state # "body")
                    => items'[i].state = "post_wait"
              /\ (items[i].state = "post_wait" /\ items'[i].state # "post_wait")
                    => /\ items'[i].state = "post_done"
                       /\ items[i].job_id \in job_ids
                       /\ job_ids' = job_ids \ {items[i].job_id}
              /\ (items[i].state # "FINISHED" /\ items'[i].state = "FINISHED")
                    => items[i].state = "post_done"]_vars

\* a post job whose fn raised has removed its id, and a later submission
\* under the same id has been accepted
C4_Witness ==
    \E i, k \in ItemNos :
        /\ i < k
        /\ items[i].run_fn = "post" /\ items[i].state = "post_done"
        /\ items[i].outcome = "raised"
        /\ Keyed(k) /\ items[k].job_id = items[i].job_id
        /\ last.result = "True"

\* C5 (as claimed): once shutdown has returned, every further submission,
\* unkeyed by either thread or keyed by the thread that shut down, returns
\* False.
C5_RejectedAfterShutdown ==
    [][(sd.state = "returned" /\ (UnkeyedReturns \/ KeyedReturns(Main)))
          => last'.result = "False"]_vars

\* calling thread c has added id and is on its way to the pool with it
Submitting(c, id) == pc[c] = "locked" /\ call[c].id = id

\* C6 (as claimed): an id is in the reserved set exactly when some accepted
\* job with that id has not yet reached its release point (or a submission
\* holding the lock has just added it and is handing the job to the pool).
C6_ReservedIffHeld ==
    \A id \in Ids :
        id \in job_ids <=> (Holders(id) # {} \/ \E c \in Threads : Submitting(c, id))

\* C7: a keyed submission that found its id reserved returns False and
\* changes neither the pool (queue, work items, threads) nor the reserved
\* set, which is as the call found it.
C7_DuplicateDropped ==
    [][\A c \in Callers :
          (KeyedReturns(c) /\ call[c].id \in call[c].before) =>
              /\ last'.result = "False"
              /\ job_ids' = call[c].before
              /\ UNCHANGED <<job_ids, poolVars>>]_vars

\* a duplicate has been refused: one call of two made a work item, the
\* other returned False, the id still reserved
C7_Witness ==
    /\ Len(items) = 1 /\ ncalls = 2
    /\ last.result = "False" /\ last.id \in job_ids
    /\ work_queue = <<1>>

\* C8: before shutdown every unkeyed submit_job returns True and puts its
\* task on the queue, whatever is reserved, queued or running, and leaves
\* the reserved set as it was.
C8_UnkeyedAlwaysAccepted ==
    [][(UnkeyedReturns /\ ~shutdown_flag) =>
          /\ last'.result = "True"
          /\ items' = Append(items, NewItem("plain", NoId))
          /\ work_queue' = Append(work_queue, Len(items) + 1)
          /\ job_ids' = job_ids]_vars

\* an unkeyed task was accepted while an id was reserved and an earlier
\* task was still executing
C8_Witness ==
    /\ last = [op |-> "plain", id |-> NoId, result |-> "True"]
    /\ job_ids # {}
    /\ Len(items) = 2
    /\ Executing(1)
    /\ items[2].run_fn = "plain"

\* C9: once shutdown(wait=True) has returned, no fn is executing and every
\* worker has ended; with cancel_pending=False every task that stood in the
\* queue when shutdown was called has been run.
C9_WaitDrains ==
    (sd.state = "returned" /\ sd.wait) =>
        /\ \A i \in ItemNos : ~Executing(i) /\ ~Dequeued(i)
        /\ exited = threads
        /\ ~sd.cancel => \A i \in sd.snap : items[i].state = "FINISHED"

\* shutdown(wait=True, cancel_pending=False) has returned and there were
\* tasks in the queue when it was called
C9_Witness ==
    /\ sd.state = "returned" /\ sd.wait /\ ~sd.cancel
    /\ Cardinality(sd.snap) >= 2

\* a shutdown(cancel_pending=True) is past its drain loop
DrainOver == sd.drained

\* C10 (as claimed): no task that stood in the queue when
\* shutdown(cancel_pending=True) was called ever starts.
C10_QueuedAtCallNeverStart ==
    sd.cancel => \A i \in sd.snap : ~Started(items[i].state)

\* C10 (amended): a task that the drain loop of shutdown(cancel_pending=True)
\* takes from the queue is cancelled and never starts; the drain loop cancels
\* nothing but the pending task at the head of the queue; a task starts only
\* out of the hands of the worker that took it from the queue, and such a
\* task is never cancelled; and once the drain loop has ended every task
\* that stood in the queue at the call has been cancelled or taken by a
\* worker.
C10_DrainedNeverStart ==
    /\ [][\A i \in ItemNos :
            /\ items[i].state = "CANCELLED" => items'[i].state = "CANCELLED"
            /\ (items[i].state # "CANCELLED" /\ items'[i].state = "CANCELLED") =>
                  /\ items[i].state = "PENDING"
                  /\ Draining /\ work_queue # <<>> /\ Head(work_queue) = i
            /\ (~Started(items[i].state) /\ Started(items'[i].state)) =>
                  items[i].state = "DEQUEUED"
            /\ items[i].state = "DEQUEUED" => items'[i].state # "CANCELLED"]_vars
    /\ []((sd.cancel /\ sd.state # "draining") =>
             \A i \in sd.snap : items[i].state # "PENDING")

\* shutdown(cancel_pending=True) has returned, its drain loop over, having
\* cancelled a task that stood in the queue when it was called, while
\* another such task, taken by a worker during the drain, has still to start
C10_Witness ==
    /\ sd.cancel /\ sd.state = "returned" /\ DrainOver
    /\ \E i, k \in sd.snap :
          items[i].state = "CANCELLED" /\ items[k].state = "DEQUEUED"

\* C11: shutdown never interrupts a job whose wrapper has started: a started
\* task is never cancelled or put back, the steps of shutdown leave it as it
\* is, and it is over only when fn has returned or raised and, for post
\* style, the id has been removed after that.
C11_StartedJobsRunOn ==
    [][\A i \in ItemNos :
          Executing(i) =>
              /\ items'[i].state \notin {"PENDING", "CANCELLED"}
              /\ (pc'[Main] # pc[Main] \/ nshutdowns' # nshutdowns \/ sd' # sd)
                    => items'[i] = items[i]
              /\ items'[i].state = "FINISHED" =>
                    /\ items'[i].outcome \in Outcomes
                    /\ IF items[i].run_fn = "post"
                       THEN items[i].state = "post_done"
                       ELSE items[i].state = "body"]_vars

\* after shutdown(cancel_pending=True) was called with a post job executing
\* fn, that job has gone on, fn has ended and the id has been removed
C11_Witness ==
    /\ sd.cancel /\ sd.state = "returned"
    /\ \E i \in ItemNos :
          /\ items[i].run_fn = "post" /\ items[i].state = "post_done"
          /\ i \notin sd.snap
          /\ items[i].job_id \notin job_ids

\* the step in which the wrapper of task i executes _job_ids.remove(job_id)
Removes(i) ==
    \/ items[i].state = "pre_wait" /\ items'[i].state # "pre_wait"
    \/ items[i].state = "post_wait" /\ items'[i].state # "post_wait"

\* C18: whenever a wrapper executes _job_ids.remove(job_id) the id is in the
\* set, so the removal never fails, and the reservation it ends is the
\* wrapper's own: no other accepted task holds the id at that moment.
C18_RemoveFindsOwnId ==
    [][\A i \in ItemNos :
          Removes(i) =>
              /\ items[i].job_id \in job_ids
              /\ Holders(items[i].job_id) = {i}
              /\ items'[i].outcome # "KeyError"
              /\ job_ids' = job_ids \ {items[i].job_id}]_vars

\* a pre and a post job have shared one id and each has done its removal
C18_Witness ==
    \E i, k \in ItemNos :
        /\ items[i].run_fn = "pre" /\ items[i].state = "body"
        /\ items[k].run_fn = "post" /\ items[k].state = "post_done"
        /\ items[k].job_id = items[i].job_id
        /\ items[i].job_id \notin job_ids

\* C19: a keyed submission that ends with no task scheduled on the pool
\* (duplicate, or refused by a pool that is shut down) leaves the reserved
\* set exactly as it was before the call.
C19_NoTaskNoReservation ==
    [][\A c \in Callers :
          (KeyedReturns(c) /\ items' = items) =>
              job_ids' = call[c].before]_vars

\* the step in which the fn of task i raises
FnRaises(i) ==
    items[i].state = "body" /\ items[i].outcome = "none" /\ items'[i].outcome = "raised"

\* C17: fn raising (unkeyed, pre or post) costs no worker and leaves the
\* executor as it is: the pool stays open, what is queued stays queued, every
\* other task and every calling thread is left alone, nobody is handed the
\* failure, and the worker that ran a failed task is back at the top of its
\* loop once the task is over.
C17_FailureIsContained ==
    [][\A i \in ItemNos :
          /\ FnRaises(i) =>
                /\ threads' = threads /\ exited' = exited /\ blocked' = blocked
                /\ shutdown_flag' = shutdown_flag /\ work_queue' = work_queue
                /\ \A k \in ItemNos \ {i} : items'[k] = items[k]
                /\ callVars' = callVars /\ lock' = lock /\ job_ids' = job_ids
                /\ items'[i].state = IF items[i].run_fn = "post" THEN "post_wait"
                                                                ELSE "FINISHED"
          /\ (items[i].state # "FINISHED" /\ items'[i] = Finished("raised")) =>
                /\ releasing' = releasing + 1
                /\ threads' = threads /\ exited' = exited]_vars

\* the pool's only worker ran a task whose fn raised and then started a task
\* that was submitted later
C17_Witness ==
    /\ threads = 1 /\ exited = 0 /\ ~shutdown_flag
    /\ \E i, k \in ItemNos :
          i < k /\ items[i] = Finished("raised") /\ Started(items[k].state)

\* the step in which calling thread c makes the check of _submit_job
Checks(c) == pc[c] = "idle" /\ pc'[c] \in {"locked", "duplicate"}

\* C16: the reserved set is checked and changed only under self._lock: a
\* calling thread makes its check, and its insert when there is no
\* conflict, in the step in which it takes the free lock, and holds the lock
\* until it leaves _submit_job; a wrapper's removal takes the lock when it
\* is free; nothing else changes the set; and the thread that is executing
\* a task's fn does not hold the lock.
C16_LockDiscipline ==
    [][/\ job_ids' # job_ids =>
             /\ lock = Free
             /\ \/ \E c \in Callers : Checks(c) /\ lock' = c
                \/ \E i \in ItemNos : Removes(i)
       /\ \A c \in Callers :
             /\ Checks(c) => lock = Free /\ lock' = c
             /\ KeyedReturns(c) => lock = c /\ lock' = Free
       /\ \A i \in ItemNos :
             /\ Removes(i) => lock = Free
             /\ items'[i].state = "body" => lock' # Runner(i)]_vars

\* a pre job is executing fn, its id removed, while a calling thread is
\* inside the lock
C16_Witness ==
    \E i \in ItemNos :
        /\ items[i].run_fn = "pre" /\ items[i].state = "body"
        /\ items[i].job_id \notin job_ids
        /\ lock \in Callers

\* C20: self._lock is never held for good.  Whoever holds it, a calling
\* thread or a pool thread whose fn is submitting, is inside _submit_job
\* and its next step gives the lock up; that step can be taken at once, or
\* waits only for the drain loop of a shutdown, which needs no lock of the
\* executor and can itself go on.
C20_LockHolderGoesOn ==
    lock # Free =>
        /\ pc[lock] \in {"locked", "duplicate"}
        /\ \/ ENABLED (SubmitDuplicate(lock) \/ SubmitSchedule(lock))
           \/ Draining /\ ENABLED ShutdownDrain(Main)

\* the fn of a keyed job is inside a keyed submission under the job's own
\* id, on a pool thread that so holds the lock
C20_Witness ==
    \E i \in ItemNos :
        /\ Keyed(i) /\ items[i].state = "body"
        /\ lock = Runner(i) /\ call[Runner(i)].id = items[i].job_id

\* C13: with shutdown never called, every fn ending and the threads
\* scheduled fairly, every accepted job (unkeyed, pre or post) eventually
\* starts, and every reserved id is eventually released.
C13_StartsAndReleases ==
    /\ \A i \in 1..MaxCalls :
          (i \in ItemNos /\ items[i].state = "PENDING")
              ~> (i \in ItemNos /\ Started(items[i].state))
    /\ \A id \in Ids : (id \in job_ids) ~> (id \notin job_ids)

\* a pool of one worker: every submission was accepted, every job has
\* started on that worker, a post job being the last, and no id is reserved
C13_Witness ==
    /\ max_workers = 1 /\ threads = 1
    /\ Len(items) = MaxCalls /\ job_ids = {}
    /\ \E i \in ItemNos :
          /\ items[i].run_fn = "post" /\ items[i].state = "post_done"
          /\ \A k \in ItemNos \ {i} : items[k].state = "FINISHED"

\* thread t is inside bg_exec_shutdown, past the test for None
InShutdown(t) == pc[t] \in {"shutdown", "shutting", "drain", "join"}

\* the step in which bg_exec_shutdown returns at once, nothing to shut down
ExecShutdownNoOp == nshutdowns' # nshutdowns /\ pc' = pc

\* the step in which thread t leaves a bg_exec_shutdown that went on to the
\* executor
ExecShutdownReturns(t) == InShutdown(t) /\ pc'[t] = "idle"

\* the step in which an engine is constructed or _job_executor assigned
Constructs == Len(engines') # Len(engines) \/ job_executor' # job_executor

\* C12 (as claimed): bg_exec_shutdown never raises and never constructs the
\* executor: every call returns None, whoever makes it.
C12_NeverRaises ==
    [][/\ Constructs => \E c \in Callers : pc[c] = "construct"
       /\ ExecShutdownNoOp => last'.result = "None"
       /\ \A t \in Threads : ExecShutdownReturns(t) => last'.result = "None"]_vars

\* C12 (amended): bg_exec_shutdown never constructs the executor: an engine
\* is constructed and the global assigned only by a thread inside _get_exec.
\* With the executor never constructed the call returns None at once and
\* changes nothing.  Otherwise it returns None, on an executor already shut
\* down as on a live one, except that with wait=True, called from inside a
\* job running on the executor's own pool, it raises RuntimeError, and does
\* so every time.
C12_ShutdownQuiet ==
    [][/\ Constructs => \E c \in Callers : pc[c] = "construct"
       /\ ExecShutdownNoOp =>
             /\ job_executor = None /\ job_executor' = None
             /\ engines' = engines
             /\ last' = Returned(BgExecShutdownCall, "None")
       /\ (nshutdowns' # nshutdowns /\ job_executor = None) => ExecShutdownNoOp
       /\ \A t \in Threads :
             ExecShutdownReturns(t) =>
                 /\ last'.op = "shutdown"
                 /\ last'.result =
                       IF /\ call[t].wait
                          /\ call[t].engine # None
                          /\ OwnPool(t, call[t].engine)
                       THEN "RuntimeError" ELSE "None"
                 /\ t \in Callers => last'.result = "None"]_vars

\* bg_exec_shutdown has been called on the constructed executor and then,
\* the executor already shut down, with wait=True by a job running on its
\* pool, where it raised
C12_Witness ==
    /\ nshutdowns = 2 /\ Len(engines) = 1 /\ job_executor = 1
    /\ engines[1].shutdowns = 2
    /\ last = Returned(BgExecShutdownCall, "RuntimeError")
    /\ \E k \in 1..Len(engines[1].jobs) : engines[1].jobs[k].phase = "body"

\* C14: however the first bg_run calls interleave, one _JobExecutorEngine
\* is constructed and every submission goes to it.
C14_OneEngine ==
    /\ Len(engines) <= 1
    /\ \A e \in 1..Len(engines) : engines[e].tasks > 0 => e = job_executor

\* the pool size the claim expects for a setting of ENGINE_BACKGROUND_THREADS
IntendedSize(setting) == IF setting = "2" THEN 2 ELSE DefaultThreads

\* C15: the lazily constructed pool has the size ENGINE_BACKGROUND_THREADS
\* gives as an integer, 4 when unset or unparsable, and its construction
\* never fails.
C15_PoolSizeFromEnv ==
    /\ last.result \notin {"TypeError", "ValueError"}
    /\ \A e \in 1..Len(engines) : engines[e].max_workers = IntendedSize(env)

====
